---- MODULE Spec2Model ----
(***************************************************************************)
(* Model of franka/archive/franka_control_ros_broken.py: the FrankaControl *)
(* class (get_position, get_joint_positions, move_relative, move_absolute) *)
(* and the command-line harness (test_motion, test_position,               *)
(* example_position, __main__).                                            *)
(*                                                                         *)
(* Python values are records [type |-> ...]; floats are held in hundredths *)
(* (0.05 is 5, 1.0 is 100).  A method outcome is a record                  *)
(* [kind |-> "return", ...] or [kind |-> "raise", exc |-> <exception>].    *)
(* The external binaries are the environment: once started, a process      *)
(* exits with any code of ExitCodes and, for the query binary, any output  *)
(* of QueryOutputs.  The binaries are taken to exist in the working dir.   *)
(***************************************************************************)
EXTENDS Integers, Sequences, FiniteSets, TLC

VARIABLES
    pc,          \* where the program is: idle (client about to call), wait
                 \* (blocked on a process), returned (back in the client),
                 \* main, prompt1, prompt2, done
    runAs,       \* "import": a client uses the class; "main": line 263 runs
    flags,       \* the parsed command-line flags, line 272
    arm,         \* the FrankaControl instance
    call,        \* the method call in progress, or the last one made
    proc,        \* the external process of that call
    result,      \* outcome of the last finished call
    printed,     \* lines printed (by the call for a client, by the program
                 \* for main)
    calls,       \* method calls made so far
    spawned,     \* processes started so far
    callSpawns,  \* processes started by the call in progress or last made
    modesRun,    \* test functions entered by __main__
    reply,       \* last answer read by the first prompt, line 183
    testing,     \* test_motion's testing, lines 185 and 188
    direction,   \* test_motion's direction, line 195
    exitStatus   \* exit status of the program once done

vars == <<pc, runAs, flags, arm, call, proc, result, printed, calls, spawned,
          callSpawns, modesRun, reply, testing, direction, exitStatus>>

(* ------------------------------ bounds ------------------------------ *)

\* calls a client of the class makes in one run
MaxCalls == 2
\* longest coordinate list handed to move_absolute
MaxCoords == 4
\* most lines the query binary writes
MaxLines == 9

(* -------------------------- Python values --------------------------- *)

\* hundredths per unit of the float representation
Scale == 100

PyFloat(n) == [type |-> "float", n |-> n]
PyInt(n)   == [type |-> "int", n |-> n]
PyStr(s)   == [type |-> "str", s |-> s]
PyNone     == [type |-> "NoneType"]
PyList     == [type |-> "list"]

\* the values a caller may pass as dx, dy, dz or as a coordinate
ArgValues ==
    { PyFloat(5), PyInt(1), PyStr("-0.05"), PyStr("abc"), PyNone, PyList }

Ok(v)      == [kind |-> "return", value |-> v]
Raise(e)   == [kind |-> "raise", exc |-> e]
ReturnNone == [kind |-> "return", value |-> PyNone]

\* float(str): the decimal literals Python accepts, here the ones in use
FloatLiterals ==
    [s \in {"0.05", "-0.05", "0", "0.0", "1", "1.0"} |->
        CASE s = "0.05"  -> 5
          [] s = "-0.05" -> -5
          [] s = "0"     -> 0
          [] s = "0.0"   -> 0
          [] s = "1"     -> 100
          [] s = "1.0"   -> 100]

\* float(x) of lines 88 and 136
Float(x) ==
    CASE x.type = "float" -> Ok(x.n)
      [] x.type = "int"   -> Ok(x.n * Scale)
      [] x.type = "str"   -> IF x.s \in DOMAIN FloatLiterals
                             THEN Ok(FloatLiterals[x.s])
                             ELSE Raise("ValueError")
      [] OTHER            -> Raise("TypeError")

Digits == <<"0", "1", "2", "3", "4", "5", "6", "7", "8", "9">>
Digit(d) == Digits[d + 1]

RECURSIVE Decimal(_)
Decimal(n) == IF n < 10 THEN Digit(n) ELSE Decimal(n \div 10) \o Digit(n % 10)

\* str(f) of lines 93 and 141: Python's shortest repr of a float
Str(f) ==
    LET a    == IF f < 0 THEN -f ELSE f
        frac == a % Scale
        tail == IF frac % 10 = 0 THEN Digit(frac \div 10)
                ELSE Digit(frac \div 10) \o Digit(frac % 10)
    IN  (IF f < 0 THEN "-" ELSE "") \o Decimal(a \div Scale) \o "." \o tail

\* a tuple of float(...) calls, evaluated left to right: the first that
\* raises decides the exception
RECURSIVE FloatAll(_, _)
FloatAll(xs, done) ==
    IF xs = <<>> THEN Ok(done)
    ELSE LET r == Float(Head(xs))
         IN  IF r.kind = "raise" THEN r
             ELSE FloatAll(Tail(xs), Append(done, r.value))

(* ------------------- module namespace and classes -------------------- *)

\* names bound at module level: the imports of lines 8-12, input (line 15)
\* and builtins, the class and the three functions
ModuleNames ==
    { "subprocess", "os", "sys", "argparse", "np", "input",
      "FrankaControl", "test_motion", "example_position", "test_position" }

\* attributes of a FrankaControl instance (lines 26-169)
FrankaControlAttrs ==
    { "ip_address", "debug", "path", "get_position", "get_joint_positions",
      "move_relative", "move_absolute" }

\* default of the ip parameter, line 26
DefaultIp == "192.168.0.88"

\* FrankaControl.__init__, lines 26-29
FrankaControlInit(ip, debug_flag) == [ip_address |-> ip, debug |-> debug_flag]

NoArm  == [ip_address |-> "", debug |-> FALSE]

(* --------------------- output of the query binary -------------------- *)

\* the bytes a process writes are a sequence of chunks: a newline, or a
\* piece of text holding no newline
NL == "\n"

\* a row of 16 numbers as the query binary prints it
RowAText == "[0,0,0,0,0,0,0,0,0,0,0,0,1.0,2.0,3.0,1]"
RowBText == "[1,0,0,0,0,1,0,0,0,0,1,0,0.05,-0.05,1.0,1]"
\* text that is no Python literal, and a byte that is not UTF-8
JunkText == "libfranka: error"
BadByte  == "\\xff"

\* the value of each well-formed row literal, in hundredths
RowLiterals ==
    [t \in {RowAText, RowBText} |->
        IF t = RowAText
        THEN <<0, 0, 0, 0, 0, 0, 0, 0, 0, 0, 0, 0, 100, 200, 300, 100>>
        ELSE <<100, 0, 0, 0, 0, 100, 0, 0, 0, 0, 100, 0, 5, -5, 100, 100>>]

\* out.decode("utf-8"), line 67
Decode(out) ==
    IF \E i \in 1..Len(out) : out[i] = BadByte
    THEN Raise("UnicodeDecodeError")
    ELSE Ok(out)

\* decoded_output.split("\n"), line 68: the pieces between newlines, each a
\* sequence of chunks (<<>> is the empty string); never an empty list
RECURSIVE Split(_, _)
Split(text, piece) ==
    IF text = <<>> THEN <<piece>>
    ELSE IF Head(text) = NL
         THEN <<piece>> \o Split(Tail(text), <<>>)
         ELSE Split(Tail(text), Append(piece, Head(text)))

\* ast.literal_eval applied to one piece of text
LiteralEval(lit) ==
    IF lit = <<>> THEN Raise("SyntaxError")
    ELSE IF Len(lit) = 1 /\ lit[1] \in DOMAIN RowLiterals
         THEN Ok(RowLiterals[lit[1]])
         ELSE IF Len(lit) = 1 THEN Raise("ValueError")
              ELSE Raise("SyntaxError")

\* the expression ast.literal_eval(x) of line 73: the name ast is looked up
\* in the module namespace first
AstLiteralEval(x) ==
    IF "ast" \in ModuleNames THEN LiteralEval(x) ELSE Raise("NameError")

\* the loop of lines 70-77
RECURSIVE ParseLoop(_, _, _)
ParseLoop(string_list, idx, converted_list) ==
    IF idx >= Len(string_list) THEN Ok(converted_list)
    ELSE LET x == AstLiteralEval(string_list[idx + 1])
         IN  IF x.kind = "raise" THEN x
             ELSE IF idx = 7 THEN Ok(Append(converted_list, x.value))
                  ELSE ParseLoop(string_list, idx + 1,
                                 Append(converted_list, x.value))

\* get_joint_positions after communicate() has returned, lines 67-77
ParseJointOutput(out) ==
    LET decoded_output == Decode(out)
    IN  IF decoded_output.kind = "raise" THEN decoded_output
        ELSE ParseLoop(Split(decoded_output.value, <<>>), 0, <<>>)

\* joints[r, c] on np.array(table), lines 36-37: a table of equal-length
\* rows is a 2-D array, indexed from 0
Index2D(table, r, c) ==
    IF r < Len(table) /\ c < Len(table[r + 1])
    THEN Ok(table[r + 1][c + 1])
    ELSE Raise("IndexError")

\* get_position, lines 36-38, given the outcome of get_joint_positions
PositionOf(joints) ==
    IF joints.kind = "raise" THEN joints
    ELSE LET x == Index2D(joints.value, 7, 12)
             y == Index2D(joints.value, 7, 13)
             z == Index2D(joints.value, 7, 14)
         IN  IF x.kind = "raise" THEN x
             ELSE Ok(<<x.value, y.value, z.value>>)

\* the texts the query binary may write: up to MaxLines lines, rows except
\* for at most one line (line b) that is empty, junk or not UTF-8, with or
\* without the final newline
BadLines == { <<>>, <<JunkText>>, <<BadByte>> }

LineSeqs ==
    UNION { { [i \in 1..n |->
                 IF i = b THEN bad
                 ELSE IF i = 8 THEN <<last>> ELSE <<fill>>] :
              b \in 0..n, bad \in BadLines,
              last \in {RowAText, RowBText}, fill \in {RowAText, RowBText} } :
            n \in 0..MaxLines }

RECURSIVE JoinLines(_)
JoinLines(ls) ==
    IF ls = <<>> THEN <<>>
    ELSE IF Len(ls) = 1 THEN ls[1]
         ELSE ls[1] \o <<NL>> \o JoinLines(Tail(ls))

QueryOutputs ==
    { JoinLines(ls) \o nl : ls \in LineSeqs, nl \in {<<>>, <<NL>>} }

\* exit codes of the binaries: success, failure, killed by a signal
ExitCodes == {0, 1, -9}

(* ------------------------ the four methods --------------------------- *)

\* A method runs in two halves around its one blocking call.  Each half is
\* a step: either it starts a process (the method then blocks) or it
\* finishes the call with an outcome; msgs is what it prints.
SpawnStep(program, command, msgs) ==
    [do |-> "spawn", program |-> program, command |-> command,
     msgs |-> msgs, result |-> ReturnNone]
FinishStep(res, msgs) ==
    [do |-> "finish", program |-> "", command |-> <<>>,
     msgs |-> msgs, result |-> res]

QueryProgram    == "./get_joint_positions"
RelativeProgram == "./franka_move_to_relative"
AbsoluteProgram == "./franka_move_to_absolute"

\* the block printed under self.debug before a process is started
\* (lines 58-63, 99-107, 149-157)
DebugBanner(self, coords) ==
    IF self.debug
    THEN { "Working directory: ", "Program: ", "IP Address of robot: ",
           "Command being called: ", "Running FRANKA code..." } \cup coords
    ELSE {}

InvalidMsg == "Arguments are invalid: must be floats"
ProblemMsg == "Python has registered a problem with "
NoProblemMsg == "No problems running "

\* get_joint_positions up to communicate(), lines 54-66
JointEntry(self) ==
    SpawnStep(QueryProgram, <<QueryProgram, self.ip_address>>,
              DebugBanner(self, {}))

\* variant: the exit status is checked before the output is parsed
JointExit_checked(self, out, returncode) ==
    IF returncode # PyInt(0)
    THEN FinishStep([kind |-> "raise", exc |-> "CalledProcessError",
                     status |-> returncode], {})
    ELSE FinishStep(ParseJointOutput(out), {})

\* get_joint_positions after communicate(), lines 67-77: the exit status of
\* the process is not looked at
JointExit(self, out, returncode) ==
    FinishStep(ParseJointOutput(out), {})

\* get_position, lines 36-38
PositionExit(self, out, returncode) ==
    FinishStep(PositionOf(JointExit(self, out, returncode).result), {})

\* the three coordinates as command-line words, lines 93-96 and 141-146
MoveCommand(program, self, f) ==
    <<program, self.ip_address, Str(f[1]), Str(f[2]), Str(f[3])>>

\* move_relative up to subprocess.call, lines 87-111
MoveRelativeEntry(self, dx, dy, dz) ==
    LET f == FloatAll(<<dx, dy, dz>>, <<>>)
    IN  IF f.kind = "raise"
        THEN IF f.exc = "ValueError"
             THEN FinishStep(ReturnNone, {InvalidMsg})
             ELSE FinishStep(f, {})
        ELSE SpawnStep(RelativeProgram,
                       MoveCommand(RelativeProgram, self, f.value),
                       DebugBanner(self, {"dx: ", "dy: ", "dz: "}))

\* move_absolute up to subprocess.call, lines 131-161
MoveAbsoluteEntry(self, coordinates) ==
    IF Len(coordinates) > 3 THEN FinishStep(Raise("ValueError"), {})
    ELSE IF Len(coordinates) < 3 THEN FinishStep(Raise("IndexError"), {})
    ELSE LET f == FloatAll(coordinates, <<>>)
         IN  IF f.kind = "raise"
             THEN IF f.exc = "ValueError"
                  THEN FinishStep(ReturnNone, {InvalidMsg})
                  ELSE FinishStep(f, {})
             ELSE SpawnStep(AbsoluteProgram,
                            MoveCommand(AbsoluteProgram, self, f.value),
                            DebugBanner(self, {"Go to x: ", "Go to y: ",
                                               "Go to z: "}))

\* variant: the failure message is printed only under self.debug
MoveExit_quiet(self, program, return_code) ==
    FinishStep(Ok(return_code),
               IF ~self.debug THEN {}
               ELSE IF return_code = PyInt(0) THEN {NoProblemMsg}
                    ELSE {ProblemMsg})

\* variant: a failed binary is started again
MoveExit_retry(self, program, return_code) ==
    IF return_code = PyInt(0)
    THEN FinishStep(Ok(return_code), IF self.debug THEN {NoProblemMsg} ELSE {})
    ELSE SpawnStep(program, <<program, self.ip_address>>, {ProblemMsg})

\* move_relative and move_absolute after subprocess.call, lines 113-119
\* and 163-169
MoveExit(self, program, return_code) ==
    FinishStep(Ok(return_code),
               IF return_code = PyInt(0)
               THEN IF self.debug THEN {NoProblemMsg} ELSE {}
               ELSE {ProblemMsg})

\* arm.<name>(...): the attribute is looked up on the instance, then the
\* method runs to its blocking call
MethodEntry(self, name, args) ==
    IF name \notin FrankaControlAttrs THEN FinishStep(Raise("AttributeError"), {})
    ELSE CASE name = "move_relative" ->
                  MoveRelativeEntry(self, args[1], args[2], args[3])
           [] name = "move_absolute" -> MoveAbsoluteEntry(self, args)
           [] OTHER -> JointEntry(self)

\* the second half of the method that is blocked on process p
MethodExit(self, name, p) ==
    CASE name = "get_joint_positions" -> JointExit(self, p.out, p.returncode)
      [] name \in {"move_relative", "move_absolute"} ->
             MoveExit(self, p.program, p.returncode)
      [] OTHER -> PositionExit(self, p.out, p.returncode)

\* communicate() (line 66) and subprocess.call (lines 111, 161) return once
\* the process has exited
ProcessDone(p) == p.state = "exited"

(* ------------------------- the state machine ------------------------- *)

NoResult == [kind |-> "pending"]
NoCall == [op |-> "none", args |-> <<>>]
NoProc == [program |-> "", argv |-> <<>>, state |-> "none",
           returncode |-> PyNone, out |-> <<>>]

FlagNames == {"motion_test", "position_test", "joint_test"}

\* variant: with no flag given the position test is run
Dispatch_default(args) ==
    IF args["motion_test"] THEN "test_motion"
    ELSE IF args["joint_test"] THEN "example_position"
    ELSE "test_position"

\* the if/elif chain of lines 274-281
Dispatch(args) ==
    IF args["motion_test"] THEN "test_motion"
    ELSE IF args["position_test"] THEN "test_position"
    ELSE IF args["joint_test"] THEN "example_position"
    ELSE "usage"

UsageMsg == "Try: franka_control.py --help"
EndEffectorMsg == "End effector position:"

\* what the caller does with a finished call.  A client of the class gets
\* the outcome back; test_motion drops it (lines 205, 207); test_position
\* prints the position (lines 257-260); example_position prints the table
\* and row 7 and calls again (lines 240-247).  An exception ends the
\* program.
CallerNext(step) ==
    IF step.do = "spawn" \/ runAs = "import" \/ step.result.kind = "raise"
    THEN step
    ELSE IF "test_position" \in modesRun
         THEN FinishStep(step.result, step.msgs \cup {EndEffectorMsg})
    ELSE IF "example_position" \in modesRun
         THEN LET pos == PositionOf(step.result)
                  again == MethodEntry(arm, "get_joint_positions", <<>>)
              IN  IF pos.kind = "raise" THEN FinishStep(pos, step.msgs)
                  ELSE [again EXCEPT
                           !.msgs = step.msgs \cup {EndEffectorMsg} \cup @]
    ELSE step

\* carry out a step: start the process and block, or hand the outcome to
\* the caller (p is the process the call leaves behind, if any)
Apply(step, self, shown, started, p) ==
    /\ arm' = self
    /\ printed' = shown \cup step.msgs
    /\ IF step.do = "spawn"
       THEN /\ proc' = [program |-> step.program, argv |-> step.command,
                        state |-> "running", returncode |-> PyNone,
                        out |-> <<>>]
            /\ spawned' = spawned + 1
            /\ callSpawns' = started + 1
            /\ pc' = "wait"
            /\ result' = NoResult
            /\ UNCHANGED exitStatus
       ELSE /\ result' = step.result
            /\ proc' = p
            /\ callSpawns' = started
            /\ pc' = IF runAs = "import" THEN "returned" ELSE "done"
            /\ exitStatus' = IF runAs = "import" THEN exitStatus
                             ELSE IF step.result.kind = "raise" THEN 1 ELSE 0
            /\ UNCHANGED spawned

\* a client calls a method of its instance
ClientCall(name, args) ==
    /\ pc = "idle"
    /\ calls < MaxCalls
    /\ call' = [op |-> name, args |-> args]
    /\ calls' = calls + 1
    /\ Apply(MethodEntry(arm, name, args), arm, {}, 0, NoProc)
    /\ UNCHANGED <<runAs, flags, modesRun, reply, testing, direction>>

CallMoveRelative ==
    \E dx \in ArgValues, dy \in ArgValues, dz \in ArgValues :
        ClientCall("move_relative", <<dx, dy, dz>>)

\* the values a coordinate may take: a number, a string that is no number,
\* None
CoordValues == { PyFloat(5), PyStr("abc"), PyNone }

CoordinateLists == UNION { [1..n -> CoordValues] : n \in 0..MaxCoords }

CallMoveAbsolute ==
    \E coordinates \in CoordinateLists :
        ClientCall("move_absolute", coordinates)

CallGetJointPositions == ClientCall("get_joint_positions", <<>>)

CallGetPosition == ClientCall("get_position", <<>>)

\* the client has the outcome of its call and goes on to the next one
ClientNext ==
    /\ pc = "returned"
    /\ pc' = "idle"
    /\ call' = NoCall
    /\ proc' = NoProc
    /\ result' = NoResult
    /\ printed' = {}
    /\ callSpawns' = 0
    /\ UNCHANGED <<runAs, flags, arm, calls, spawned, modesRun, reply,
                   testing, direction, exitStatus>>

\* the environment: the running binary exits; the query binary's standard
\* output is piped (line 65), the motion binaries' is not
ProcessExit ==
    /\ pc = "wait"
    /\ proc.state = "running"
    /\ \E rc \in ExitCodes :
       \E out \in IF proc.program = QueryProgram THEN QueryOutputs ELSE {<<>>} :
           proc' = [proc EXCEPT !.state = "exited",
                                !.returncode = PyInt(rc), !.out = out]
    /\ UNCHANGED <<pc, runAs, flags, arm, call, result, printed, calls,
                   spawned, callSpawns, modesRun, reply, testing, direction,
                   exitStatus>>

\* the blocked method resumes and runs to its end
Return ==
    /\ pc = "wait"
    /\ ProcessDone(proc)
    /\ LET ended == MethodExit(arm, call.op, proc)
           next  == CallerNext(ended)
           again == ended.do = "finish" /\ next.do = "spawn"
       IN  /\ calls' = IF again THEN calls + 1 ELSE calls
           /\ Apply(next, arm, printed, IF again THEN 0 ELSE callSpawns, proc)
    /\ UNCHANGED <<runAs, flags, call, modesRun, reply, testing, direction>>

\* __main__, lines 263-281, with test_position (255-256) and
\* example_position (239-241) up to their first call
Main ==
    /\ pc = "main"
    /\ LET mode == Dispatch(flags)
       IN  CASE mode = "usage" ->
                  /\ printed' = printed \cup {UsageMsg}
                  /\ pc' = "done"
                  /\ exitStatus' = 0
                  /\ UNCHANGED <<arm, call, proc, result, calls, spawned,
                                 callSpawns, modesRun>>
             [] mode = "test_motion" ->
                  /\ modesRun' = modesRun \cup {mode}
                  /\ pc' = "prompt1"
                  /\ UNCHANGED <<arm, call, proc, result, printed, calls,
                                 spawned, callSpawns, exitStatus>>
             [] mode = "test_position" ->
                  /\ modesRun' = modesRun \cup {mode}
                  /\ call' = [op |-> "get_end_effector_pos", args |-> <<>>]
                  /\ calls' = calls + 1
                  /\ Apply(MethodEntry(FrankaControlInit(DefaultIp, TRUE),
                                       "get_end_effector_pos", <<>>),
                           FrankaControlInit(DefaultIp, TRUE), printed, 0, NoProc)
             [] OTHER ->
                  /\ modesRun' = modesRun \cup {mode}
                  /\ IF "FrankaRos" \in ModuleNames
                     THEN /\ call' = [op |-> "get_joint_positions",
                                      args |-> <<>>]
                          /\ calls' = calls + 1
                          /\ Apply(JointEntry(FrankaControlInit(DefaultIp, TRUE)),
                                   FrankaControlInit(DefaultIp, TRUE),
                                   printed, 0, NoProc)
                     ELSE /\ UNCHANGED <<call, calls>>
                          /\ Apply(FinishStep(Raise("NameError"), {}),
                                   arm, printed, 0, NoProc)
    /\ UNCHANGED <<runAs, flags, reply, testing, direction>>

\* what the user may type at the two prompts
Replies    == {"", "n", "N", "y", "Y", "yes", "0"}
Directions == {"0", "1", "2", "", "y"}

\* str.lower() on the replies
Lower(t) ==
    CASE t = "N" -> "n"
      [] t = "Y" -> "y"
      [] OTHER   -> t

\* one turn of the loop of lines 182-192
Prompt1 ==
    /\ pc = "prompt1"
    /\ \E t \in Replies :
        /\ reply' = t
        /\ IF t = "" \/ Lower(t) = "n"
           THEN /\ testing' = FALSE
                /\ printed' = printed \cup {"Testing mode: "}
                /\ pc' = "prompt2"
           ELSE IF Lower(t) = "y"
           THEN /\ testing' = TRUE
                /\ printed' = printed \cup {"Testing mode: "}
                /\ pc' = "prompt2"
           ELSE /\ printed' = printed \cup {"Invalid response."}
                /\ UNCHANGED <<testing, pc>>
    /\ UNCHANGED <<runAs, flags, arm, call, proc, result, calls, spawned,
                   callSpawns, modesRun, direction, exitStatus>>

\* variant: the two directions are swapped
StepDx_swapped(d) == IF d = "0" THEN PyFloat(-5) ELSE PyFloat(5)

\* the dx of lines 205 and 207
StepDx(d) == IF d = "0" THEN PyFloat(5) ELSE PyFloat(-5)

\* defaults of dy and dz, line 79
DefaultDelta == PyFloat(0)

\* one turn of the loop of lines 194-199 and, once it is left, the rest of
\* test_motion (lines 201-230)
Prompt2 ==
    /\ pc = "prompt2"
    /\ \E d \in Directions :
        /\ direction' = d
        /\ IF d \in {"0", "1"}
           THEN IF testing
                THEN /\ call' = [op |-> "move_relative",
                                 args |-> <<StepDx(d), DefaultDelta,
                                            DefaultDelta>>]
                     /\ calls' = calls + 1
                     /\ Apply(MethodEntry(FrankaControlInit(DefaultIp, TRUE),
                                          "move_relative",
                                          <<StepDx(d), DefaultDelta,
                                            DefaultDelta>>),
                              FrankaControlInit(DefaultIp, TRUE), printed, 0, NoProc)
                ELSE /\ printed' = printed \cup
                           { "dx: ", "dy: ", "dz: ", "Program being run is: ",
                             "IP Address of robot: ", "Command being called: " }
                     /\ pc' = "done"
                     /\ exitStatus' = 0
                     /\ UNCHANGED <<arm, call, proc, result, calls, spawned,
                                    callSpawns>>
           ELSE /\ printed' = printed \cup {"Invalid input. Must be 0/1."}
                /\ UNCHANGED <<pc, arm, call, proc, result, calls, spawned,
                               callSpawns, exitStatus>>
    /\ UNCHANGED <<runAs, flags, modesRun, reply, testing>>

Init ==
    /\ runAs \in {"import", "main"}
    /\ pc = IF runAs = "import" THEN "idle" ELSE "main"
    /\ flags \in [FlagNames -> BOOLEAN]
    /\ runAs = "import" => flags = [f \in FlagNames |-> FALSE]
    /\ \E debug_flag \in BOOLEAN :
           arm = IF runAs = "import"
                 THEN FrankaControlInit(DefaultIp, debug_flag)
                 ELSE NoArm
    /\ call = NoCall
    /\ proc = NoProc
    /\ result = NoResult
    /\ printed = {}
    /\ calls = 0
    /\ spawned = 0
    /\ callSpawns = 0
    /\ modesRun = {}
    /\ reply = ""
    /\ testing = FALSE
    /\ direction = ""
    /\ exitStatus = 0

Next ==
    \/ CallMoveRelative
    \/ CallMoveAbsolute
    \/ CallGetJointPositions
    \/ CallGetPosition
    \/ ClientNext
    \/ ProcessExit
    \/ Return
    \/ Main
    \/ Prompt1
    \/ Prompt2

Spec == Init /\ [][Next]_vars

(* ----------------------------- properties ---------------------------- *)

\* a call has run to its end: back in the client, or the program is over
Finished == pc \in {"returned", "done"}

QueryOps == {"get_joint_positions", "get_position"}
MoveOps  == {"move_relative", "move_absolute"}

\* the arguments float() accepts
Numeric(v) ==
    \/ v.type \in {"float", "int"}
    \/ v.type = "str" /\ v.s \in {"0.05", "-0.05", "0", "0.0", "1", "1.0"}

AllNumeric(xs) == \A i \in 1..Len(xs) : Numeric(xs[i])

\* the call in progress got past the validation of its arguments
ValidCall ==
    \/ call.op \in QueryOps
    \/ call.op = "move_relative" /\ AllNumeric(call.args)
    \/ call.op = "move_absolute" /\ Len(call.args) = 3 /\ AllNumeric(call.args)

\* out is 8 well-formed lines of 16 numbers, with or without a last newline
WellFormed8(out) ==
    /\ Len(out) \in {15, 16}
    /\ \A i \in 1..Len(out) :
          IF i % 2 = 1 THEN out[i] \in {RowAText, RowBText} ELSE out[i] = NL

\* the number of lines in out: every newline ends one, and text after the
\* last newline is one more
LineCount(out) ==
    Cardinality({i \in 1..Len(out) : out[i] = NL})
        + (IF out # <<>> /\ out[Len(out)] # NL THEN 1 ELSE 0)

\* columns 12 to 14 of a row
Xyz(row) == <<row[13], row[14], row[15]>>

\* the exceptions that report text that cannot be parsed
ParseErrors == {"SyntaxError", "ValueError", "UnicodeDecodeError"}

\* C1: on 8 well-formed lines get_joint_positions returns a table of 8
\* rows, and get_position returns columns 12 to 14 of its row 7: (1.0, 2.0,
\* 3.0) when the lines are [0,...,0,1.0,2.0,3.0,1].
C1_PositionIsRow7 ==
    (pc = "returned" /\ call.op \in QueryOps /\ WellFormed8(proc.out)) =>
        /\ result.kind = "return"
        /\ call.op = "get_joint_positions" => Len(result.value) = 8
        /\ call.op = "get_position" =>
               result.value = Xyz(RowLiterals[proc.out[15]])

\* C2: move_relative and move_absolute given an argument that is no number
\* (a string that is no number, None, a list) start no process and return
\* None; they do not raise.
C2_NonNumericReturnsNone ==
    (pc = "returned" /\ call.op \in MoveOps /\ ~AllNumeric(call.args)
        /\ (call.op = "move_absolute" => Len(call.args) = 3)) =>
        /\ callSpawns = 0
        /\ result = ReturnNone

\* C3: move_absolute given a list of any length but 3 starts no process and
\* fails with the same error, the ValueError of line 132, whether the list
\* is too short or too long.
C3_WrongLengthIsValueError ==
    (pc = "returned" /\ call.op = "move_absolute" /\ Len(call.args) # 3) =>
        /\ callSpawns = 0
        /\ result = Raise("ValueError")

\* C4: on fewer than 8 lines of output get_joint_positions fails with a
\* parse error, and every table it returns has 8 rows.
C4_ShortOutputIsParseError ==
    (pc = "returned" /\ call.op = "get_joint_positions") =>
        /\ LineCount(proc.out) < 8 =>
               result.kind = "raise" /\ result.exc \in ParseErrors
        /\ result.kind = "return" => Len(result.value) = 8

\* C5: a move with valid numeric arguments returns the exit code of its
\* process, whatever it is, without raising, and prints the failure message
\* exactly when that code is not 0, with or without debug.
C5_ReturnsExitCode ==
    (Finished /\ call.op \in MoveOps /\ ValidCall) =>
        /\ proc.state = "exited"
        /\ result = Ok(proc.returncode)
        /\ ProblemMsg \in printed <=> proc.returncode # PyInt(0)

C5_Witness ==
    /\ pc = "returned" /\ call.op = "move_relative" /\ ValidCall
    /\ ~arm.debug
    /\ proc.returncode = PyInt(1)
    /\ result = Ok(PyInt(1))
    /\ ProblemMsg \in printed

NoFlag == \A f \in FlagNames : ~flags[f]

\* C7: whatever the three flags, at most one mode is run, and only one whose
\* flag is given; with no flag no mode is run, no process is started, the
\* usage hint is printed and the program ends with status 0.
C7_AtMostOneMode ==
    /\ Cardinality(modesRun) <= 1
    /\ "test_motion" \in modesRun => flags["motion_test"]
    /\ "test_position" \in modesRun => flags["position_test"]
    /\ "example_position" \in modesRun => flags["joint_test"]
    /\ (runAs = "main" /\ NoFlag /\ pc # "main") =>
           /\ pc = "done"
           /\ modesRun = {}
           /\ calls = 0 /\ spawned = 0
           /\ UsageMsg \in printed
           /\ exitStatus = 0

C7_Witness ==
    /\ runAs = "main" /\ NoFlag /\ pc = "done"
    /\ modesRun = {} /\ spawned = 0 /\ printed = {UsageMsg}

\* C8: a run in position-test mode ends having called get_position, which
\* starts the query binary, and printed the position; a run in joint-test
\* mode ends only after calling get_joint_positions on an instance.
C8_ModesReachTheQuery ==
    (runAs = "main" /\ pc = "done" /\ ~flags["motion_test"]) =>
        /\ flags["position_test"] =>
               /\ call.op = "get_position"
               /\ spawned >= 1
               /\ EndEffectorMsg \in printed
        /\ (~flags["position_test"] /\ flags["joint_test"]) =>
               /\ call.op = "get_joint_positions"
               /\ spawned >= 1

\* C9: a call starts at most one process, exactly one when its arguments
\* are valid, is blocked while that process runs and finishes only once it
\* has exited, with no second start whatever the exit code; the processes
\* started never outnumber the calls made.
C9_OneProcessPerCall ==
    /\ callSpawns <= 1
    /\ spawned <= calls
    /\ pc = "wait" => callSpawns = 1 /\ result = NoResult
    /\ (Finished /\ callSpawns = 1) => proc.state = "exited"
    /\ (Finished /\ call.op \in QueryOps \cup MoveOps) =>
           (callSpawns = 1 <=> ValidCall)

C9_Witness ==
    /\ pc = "returned" /\ call.op = "move_absolute"
    /\ callSpawns = 1 /\ proc.state = "exited"
    /\ proc.returncode = PyInt(1)
    /\ calls = 2 /\ spawned = 1

InMotionTest == "test_motion" \in modesRun

\* C10: in the motion test the first prompt is left only on "", n or y in
\* either case and the second only on 0 or 1; a process is started only
\* after y; after "" or n the run ends with no call made; after y
\* move_relative is called once, with dx 0.05 for 0 and -0.05 for 1 and
\* dy = dz = 0.
C10_MotionTest ==
    InMotionTest =>
        /\ pc # "prompt1" =>
               /\ reply \in {"", "n", "N", "y", "Y"}
               /\ testing <=> reply \in {"y", "Y"}
        /\ pc \in {"wait", "done"} => direction \in {"0", "1"}
        /\ spawned > 0 => pc \in {"wait", "done"} /\ reply \in {"y", "Y"}
        /\ (pc = "done" /\ reply \notin {"y", "Y"}) =>
               calls = 0 /\ spawned = 0
        /\ (pc \in {"wait", "done"} /\ reply \in {"y", "Y"}) =>
               /\ calls = 1 /\ spawned = 1
               /\ call.op = "move_relative"
               /\ call.args = <<PyFloat(IF direction = "0" THEN 5 ELSE -5),
                                PyFloat(0), PyFloat(0)>>
               /\ proc.argv = <<RelativeProgram, DefaultIp,
                                IF direction = "0" THEN "0.05" ELSE "-0.05",
                                "0.0", "0.0">>

C10_Witness ==
    /\ InMotionTest /\ pc = "done"
    /\ reply = "Y" /\ direction = "1"
    /\ spawned = 1
    /\ proc.argv[3] = "-0.05"
    /\ proc.returncode = PyInt(1)

====
